---- MODULE Spec2Model ----
(***************************************************************************)
(* Model of quantum_resistant_p2p/crypto/signatures.py: the two signature  *)
(* classes DilithiumSignature and SPHINCSSignature, the module-level flag  *)
(* LIBOQS_AVAILABLE they share, the class-level mock key registries and    *)
(* the oqs backend they call.                                              *)
(*                                                                         *)
(* A byte string is a record [v, n]: v is a term that names its content    *)
(* and n is its length in bytes.  A digest is named after the function     *)
(* and the content it hashed, so two digests are equal exactly when the    *)
(* same function hashed the same content (the hashes are taken to be       *)
(* collision-free); the content of a concatenation is named by the two     *)
(* names one after the other.                                              *)
(***************************************************************************)
EXTENDS Integers, Sequences, FiniteSets, TLC

\* ------------------------------------------------------------ bounds
\* instance slots of the process
MaxInst == 2
\* recursion depth at which the interleaved calls are cut off
MaxDepth == 2
\* calling threads
NumThreads == 2
\* key pairs the oqs backend hands out before it stops being asked
MaxRealKeys == 1

\* ------------------------------------------------------------ byte strings
None == "None"

\* b""
Empty == [v |-> "", n |-> 0]

\* an opaque byte string (or encoded text) named s, of n bytes
Raw(s, n) == [v |-> "<" \o s \o ">", n |-> n]

\* a + b, and what digest.update(a); digest.update(b) feeds the hash
Cat(a, b) == [v |-> a.v \o b.v, n |-> a.n + b.n]

\* len(b)
BLen(b) == b.n

\* hashlib.sha256(b).digest()
sha256(b) == [v |-> "sha256(" \o b.v \o ")", n |-> 32]

\* hashlib.sha384(); update(..); digest()
sha384(b) == [v |-> "sha384(" \o b.v \o ")", n |-> 48]

\* hmac.new(key, msg, hashlib.sha256).digest()
hmac_sha256(key, msg) == [v |-> "hmac-sha256(" \o key.v \o "," \o msg.v \o ")", n |-> 32]

\* bytes.hex(): two characters per byte, one-to-one
hex(b) == [v |-> "hex(" \o b.v \o ")", n |-> 2 * b.n]

\* str(int).encode()
str(k) == Raw(ToString(k), 1)

\* a comparison that looks at the lengths only
compare_digest_lengths(a, b) == BLen(a) = BLen(b)

\* hmac.compare_digest(a, b)
compare_digest(a, b) == a = b

\* a lookup that never finds the key
dict_get_misses(d, key) == {}
\* dict.get(key): the value or Python's None; an optional byte string is
\* the set of at most one byte string
dict_get(d, key) == IF key \in DOMAIN d THEN {d[key]} ELSE {}

\* an assignment that stores nothing
dict_set_dropped(d, key, value) == d
\* an assignment that forgets every other key
dict_set_alone(d, key, value) == [x \in {key} |-> value]
\* d[key] = value
dict_set(d, key, value) ==
    [x \in DOMAIN d \cup {key} |-> IF x = key THEN value ELSE d[x]]

\* truth value of an optional byte string, as in "if private_key:"
Truthy(o) == \E b \in o : BLen(b) > 0

\* ------------------------------------------------------------ families
Dilithium == "dilithium"
SPHINCS == "sphincs"
Families == {Dilithium, SPHINCS}

\* DilithiumSignature.__init__: level -> mechanism names, preferred first
dilithium_variants ==
    (2 :> <<"ML-DSA-44", "Dilithium2">>) @@
    (3 :> <<"ML-DSA-65", "Dilithium3">>) @@
    (5 :> <<"ML-DSA-87", "Dilithium5">>)

\* SPHINCSSignature.__init__: level -> mechanism names
sphincs_variants ==
    (1 :> <<"SPHINCS+-SHA2-128f-simple">>) @@
    (3 :> <<"SPHINCS+-SHA2-192f-simple">>) @@
    (5 :> <<"SPHINCS+-SHA2-256f-simple">>)

variants(family) == IF family = Dilithium THEN dilithium_variants ELSE sphincs_variants

\* the text each class puts in front of its key seeds
seed_prefix(family) == IF family = Dilithium THEN Raw("dilithium-", 10) ELSE Raw("sphincs-", 8)

\* ------------------------------------------------------------ mock engine
\* generate_keypair, mock branch: private_key = sha256(seed.encode())
mock_private_key(family, security_level, node_id) ==
    sha256(Cat(Cat(seed_prefix(family), str(security_level)), Cat(Raw("-private-", 9), node_id)))

\* generate_keypair, mock branch: public_key = sha256(pub_seed.encode())
mock_public_key(family, security_level, private_key) ==
    sha256(Cat(Cat(seed_prefix(family), str(security_level)),
               Cat(Raw("-public-", 8), hex(private_key))))

\* DilithiumSignature.sign, mock branch
dilithium_mock_sign(private_key, message) == hmac_sha256(private_key, message)

\* a SPHINCS mock that signs with the HMAC of the other family
sphincs_mock_sign_hmac(private_key, message) == hmac_sha256(private_key, message)
\* SPHINCSSignature.sign, mock branch: sha384 over key then message
sphincs_mock_sign(private_key, message) == sha384(Cat(private_key, message))

mock_sign(family, private_key, message) ==
    IF family = Dilithium THEN dilithium_mock_sign(private_key, message)
    ELSE sphincs_mock_sign(private_key, message)

\* DilithiumSignature.verify, mock branch: expected_signature
dilithium_expected_signature(private_key, message) == hmac_sha256(private_key, message)

\* an expected signature that hashes the message before the key
sphincs_expected_signature_swapped(private_key, message) == sha384(Cat(message, private_key))

\* SPHINCSSignature.verify, mock branch: expected_signature
sphincs_expected_signature(private_key, message) == sha384(Cat(private_key, message))

\* a structure check that accepts longer signatures too
dilithium_structure_ok_atleast(signature) == BLen(signature) >= 32

\* DilithiumSignature.verify, mock branch without a registered key
dilithium_structure_ok(signature) == BLen(signature) = 32

\* a length check that lets shorter digests of 32 bytes through
sphincs_structure_ok_from32(signature) == BLen(signature) >= 32
\* SPHINCSSignature.verify, mock branch without a registered key
sphincs_structure_ok(signature) == BLen(signature) = 48

\* verify, mock branch, given the registry of the class
mock_verify(family, registry, public_key, message, signature) ==
    LET private_key == dict_get(registry, public_key) IN
    IF Truthy(private_key)
    THEN LET key == CHOOSE b \in private_key : TRUE IN
         IF family = Dilithium
         THEN compare_digest(signature, dilithium_expected_signature(key, message))
         ELSE compare_digest(signature, sphincs_expected_signature(key, message))
    ELSE IF family = Dilithium THEN dilithium_structure_ok(signature)
         ELSE sphincs_structure_ok(signature)

\* ------------------------------------------------------------ oqs backend
\* every mechanism name the two classes ask for
Mechanisms ==
    UNION {UNION {{variants(f)[l][k] : k \in 1..Len(variants(f)[l])} : l \in DOMAIN variants(f)} :
           f \in Families}

\* lengths liboqs publishes for a mechanism: <<public key, secret key, signature>>
oqs_details(mechanism) ==
    CASE mechanism = "ML-DSA-44" -> <<1312, 2560, 2420>>
      [] mechanism = "Dilithium2" -> <<1312, 2528, 2420>>
      [] mechanism = "ML-DSA-65" -> <<1952, 4032, 3309>>
      [] mechanism = "Dilithium3" -> <<1952, 4000, 3293>>
      [] mechanism = "ML-DSA-87" -> <<2592, 4896, 4627>>
      [] mechanism = "Dilithium5" -> <<2592, 4864, 4595>>
      [] mechanism = "SPHINCS+-SHA2-128f-simple" -> <<32, 64, 17088>>
      [] mechanism = "SPHINCS+-SHA2-192f-simple" -> <<48, 96, 35664>>
      [] OTHER -> <<64, 128, 49856>>

\* self.signer.generate_keypair() and self.signer.export_secret_key():
\* the k-th pair the backend draws for a mechanism
oqs_generate_keypair(mechanism, k) ==
    [public_key |-> [v |-> "oqs-pk(" \o mechanism \o "," \o ToString(k) \o ")",
                     n |-> oqs_details(mechanism)[1]],
     private_key |-> [v |-> "oqs-sk(" \o mechanism \o "," \o ToString(k) \o ")",
                      n |-> oqs_details(mechanism)[2]]]

\* oqs.Signature(variant, private_key).sign(message)
oqs_sign(mechanism, private_key, message) ==
    [v |-> "oqs-sig(" \o mechanism \o "," \o private_key.v \o "," \o message.v \o ")",
     n |-> oqs_details(mechanism)[3]]

\* oqs.Signature(variant).verify(message, signature, public_key): true for
\* the signatures made on that message with the secret key the backend drew
\* together with public_key, among the drawn pairs
oqs_verify(mechanism, message, signature, public_key, drawn) ==
    \E k \in 1..Len(drawn) :
        LET pair == oqs_generate_keypair(drawn[k], k) IN
        /\ drawn[k] = mechanism
        /\ public_key = pair.public_key
        /\ signature = oqs_sign(mechanism, pair.private_key, message)

\* ------------------------------------------------------------ state
VARIABLES
    LIBOQS_AVAILABLE,   \* the module-level flag
    NODE_ID,            \* os.environ.get('NODE_ID'), None when unset
    enabled_mechanisms, \* what oqs.get_enabled_sig_mechanisms() returns
    instances,          \* slot -> the instance constructed there
    mock_keypairs,      \* family -> the class-level _mock_keypairs dict
    oqs_keys,           \* the mechanisms of the key pairs the backend has drawn
    returned,           \* what generate_keypair has returned, to whom
    frames,             \* thread -> the call it is in, when calls interleave
    last                \* the latest constructor or method call

vars == <<LIBOQS_AVAILABLE, NODE_ID, enabled_mechanisms, instances, mock_keypairs,
          oqs_keys, returned, frames, last>>

Threads == 1..NumThreads
Slots == 1..MaxInst

\* levels callers ask for: 2 and 3 are Dilithium levels; 3 is a SPHINCS
\* level and 2 is not
LevelInputs == {2, 3}

\* messages callers sign and verify
hello == Raw("hello", 5)
hallo == Raw("hallo", 5)
Messages == {hello, hallo}

\* what the backend may have enabled: every mechanism, or only old names
EnabledChoices ==
    {Mechanisms, {"Dilithium3", "SPHINCS+-SHA2-192f-simple"}}

NoInstance ==
    [exists |-> FALSE, family |-> None, security_level |-> 0, signer |-> None,
     variant |-> None, enabled_sigs |-> {}]

\* a call: the method (or "init"), the instance it ran on, the node id
\* generate_keypair read, what the constructor was given and raised; what
\* the method returned: the key pair, the length of the signature, the
\* verdict, the name; whether verify found a private key; the branch that returned
\* (path), the recursion depth it returned from, the backend calls it made
\* and the flag when it started
NoCall ==
    [op |-> None, inst |-> 0, node_id |-> Empty, family |-> None, security_level |-> 0,
     raised |-> None, ret_public_key |-> Empty, ret_private_key |-> Empty,
     ret_len |-> 0, ret_ok |-> FALSE, ret_name |-> <<>>, found |-> FALSE,
     path |-> None, depth |-> 0, calls |-> 0, flag0 |-> FALSE]

\* a thread that is in no call; the frame of a call holds the statement
\* it is at (pc), the method, the instance, the recursion depth, the backend
\* calls made so far, the flag when the outermost call started, the
\* public_key argument of a verify call (a set of at most one key) and
\* whether that key had been generated when the call started
Idle ==
    [pc |-> "idle", op |-> None, inst |-> 0, depth |-> 0, calls |-> 0, flag0 |-> FALSE,
     public_key |-> {}, registered0 |-> FALSE]

\* the import of oqs at module load succeeds or not (without it nothing is
\* enabled); the environment has a NODE_ID or not; nothing is constructed
Init ==
    /\ LIBOQS_AVAILABLE \in BOOLEAN
    /\ NODE_ID \in {None, "node-A"}
    /\ enabled_mechanisms \in (IF LIBOQS_AVAILABLE THEN EnabledChoices ELSE {{}})
    /\ instances = [i \in Slots |-> NoInstance]
    /\ mock_keypairs = [f \in Families |-> <<>>]
    /\ oqs_keys = <<>>
    /\ returned = {}
    /\ frames = [t \in Threads |-> Idle]
    /\ last = NoCall

\* ------------------------------------------------------------ construction
\* a loop that settles for the preferred name when none is enabled
first_enabled_default(names, enabled_sigs) ==
    LET hits == {k \in 1..Len(names) : names[k] \in enabled_sigs} IN
    IF hits = {} THEN names[1]
    ELSE names[CHOOSE k \in hits : \A j \in hits : k <= j]
\* a loop without its break: a later enabled name replaces an earlier one
RECURSIVE variant_loop_no_break(_, _, _)
variant_loop_no_break(names, enabled_sigs, k) ==
    IF k > Len(names) THEN None
    ELSE LET later == variant_loop_no_break(names, enabled_sigs, k + 1) IN
         IF later # None THEN later
         ELSE IF names[k] \in enabled_sigs THEN names[k] ELSE None

\* "for variant in ..._variants[security_level]:" from the k-th name on:
\* self.variant is set to the name at hand if it is in self.enabled_sigs,
\* and the loop breaks; it stays None when the list is used up
RECURSIVE variant_loop(_, _, _)
variant_loop(names, enabled_sigs, k) ==
    IF k > Len(names) THEN None
    ELSE IF names[k] \in enabled_sigs THEN names[k]
    ELSE variant_loop(names, enabled_sigs, k + 1)

\* the loop over the variants of a level, from the first name
first_enabled(names, enabled_sigs) == variant_loop(names, enabled_sigs, 1)

\* a probe that reports what it found and leaves the flag to its caller
probe_keeps_flag(available, enum_raises) ==
    [enabled_sigs |-> IF available /\ ~enum_raises THEN enabled_mechanisms ELSE {},
     available |-> available]
\* a probe that asks the backend whatever the flag says and sets the flag
\* to what it finds
probe_reprobes(available, enum_raises) ==
    [enabled_sigs |-> IF ~enum_raises THEN enabled_mechanisms ELSE {},
     available |-> ~enum_raises]

\* __init__, the probe: self.enabled_sigs and the flag after asking the
\* backend for its mechanisms, which is done only while the flag is set and
\* clears the flag when it raises
probe(available, enum_raises) ==
    [enabled_sigs |-> IF available /\ ~enum_raises THEN enabled_mechanisms ELSE {},
     available |-> available /\ ~enum_raises]

\* a constructor that gives up on the backend before it looks at the level
init_instance_degrades(family, security_level, available, enum_raises, signature_raises) ==
    IF available /\ security_level \notin DOMAIN variants(family)
    THEN [raised |-> "ValueError", obj |-> NoInstance, available |-> FALSE]
    ELSE [raised |-> None,
          obj |-> [exists |-> TRUE, family |-> family, security_level |-> security_level,
                   signer |-> None, variant |-> None, enabled_sigs |-> {}],
          available |-> FALSE]
\* __init__ of both classes, run with the flag at `available`; the backend
\* raises in get_enabled_sig_mechanisms when enum_raises and in
\* oqs.Signature(variant) when signature_raises.  The result: whether
\* ValueError was raised, the object and the flag afterwards.
init_instance(family, security_level, available, enum_raises, signature_raises) ==
    LET p == probe(available, enum_raises)
        obj == [exists |-> TRUE, family |-> family, security_level |-> security_level,
                signer |-> None, variant |-> None, enabled_sigs |-> p.enabled_sigs]
    IN  IF ~p.available
        THEN [raised |-> None, obj |-> obj, available |-> FALSE]
        ELSE IF security_level \notin DOMAIN variants(family)
        THEN [raised |-> "ValueError", obj |-> NoInstance, available |-> p.available]
        ELSE LET variant == first_enabled(variants(family)[security_level],
                                          p.enabled_sigs) IN
             IF variant = None
             THEN [raised |-> None, obj |-> obj, available |-> FALSE]
             ELSE IF signature_raises
             THEN [raised |-> None, obj |-> [obj EXCEPT !.variant = variant],
                   available |-> FALSE]
             ELSE [raised |-> None,
                   obj |-> [obj EXCEPT !.variant = variant, !.signer = variant],
                   available |-> p.available]

FreeSlots == {i \in Slots : ~instances[i].exists}

\* DilithiumSignature(security_level) or SPHINCSSignature(security_level)
Construct(family, security_level, enum_raises, signature_raises) ==
    /\ FreeSlots # {}
    /\ LET slot == CHOOSE i \in FreeSlots : \A j \in FreeSlots : i <= j
           r == init_instance(family, security_level, LIBOQS_AVAILABLE, enum_raises,
                              signature_raises)
       IN  /\ LIBOQS_AVAILABLE' = r.available
           /\ instances' = IF r.raised = None THEN [instances EXCEPT ![slot] = r.obj]
                           ELSE instances
           /\ last' = [NoCall EXCEPT !.op = "init", !.family = family,
                                     !.security_level = security_level,
                                     !.raised = r.raised,
                                     !.inst = IF r.raised = None THEN slot ELSE 0,
                                     !.flag0 = LIBOQS_AVAILABLE]
    /\ UNCHANGED <<NODE_ID, enabled_mechanisms, mock_keypairs, oqs_keys, returned, frames>>

\* ------------------------------------------------------------ operations
\* get_node_id() on thread t: NODE_ID, or str(threading.get_ident())
get_node_id(t) == IF NODE_ID # None THEN Raw(NODE_ID, 6) ELSE str(t)

\* a test that looks at the signer only
use_mock_signer_only(available, obj) == obj.signer = None

\* the test at the head of generate_keypair, sign and verify:
\* "not LIBOQS_AVAILABLE or self.signer is None"
use_mock(available, obj) == ~available \/ obj.signer = None

\* the arguments the except clause passes to the recursive call
recursive_call(args) == args

\* an except clause that leaves the flag alone
except_flag_kept(available) == available

\* the flag after the except clause: LIBOQS_AVAILABLE = False
except_flag(available) == FALSE

\* a call that clears the flag whenever it has asked the backend
run_clears_flag(obj, args, backend_raises) ==
    IF use_mock(LIBOQS_AVAILABLE, obj)
    THEN [path |-> "mock", args |-> args, depth |-> 0, calls |-> 0,
          available |-> LIBOQS_AVAILABLE]
    ELSE IF ~backend_raises
    THEN [path |-> "real", args |-> args, depth |-> 0, calls |-> 1, available |-> FALSE]
    ELSE [path |-> "mock", args |-> args, depth |-> 1, calls |-> 1, available |-> FALSE]
\* a call that falls back to the mock for itself and leaves the flag alone
run_local_fallback(obj, args, backend_raises) ==
    IF use_mock(LIBOQS_AVAILABLE, obj)
    THEN [path |-> "mock", args |-> args, depth |-> 0, calls |-> 0,
          available |-> LIBOQS_AVAILABLE]
    ELSE IF ~backend_raises
    THEN [path |-> "real", args |-> args, depth |-> 0, calls |-> 1,
          available |-> LIBOQS_AVAILABLE]
    ELSE [path |-> "mock", args |-> args, depth |-> 1, calls |-> 1,
          available |-> LIBOQS_AVAILABLE]
\* One call on obj run to its return, with the backend raising in the try
\* block when backend_raises: the branch that returns, the arguments and
\* the recursion depth of the frame that returns, the backend calls made
\* and the flag afterwards.  The recursive call the except clause makes
\* runs the same test again.
run(obj, args, backend_raises) ==
    IF use_mock(LIBOQS_AVAILABLE, obj)
    THEN [path |-> "mock", args |-> args, depth |-> 0, calls |-> 0,
          available |-> LIBOQS_AVAILABLE]
    ELSE IF ~backend_raises
    THEN [path |-> "real", args |-> args, depth |-> 0, calls |-> 1,
          available |-> LIBOQS_AVAILABLE]
    ELSE LET available == except_flag(LIBOQS_AVAILABLE) IN
         IF use_mock(available, obj)
         THEN [path |-> "mock", args |-> recursive_call(args), depth |-> 1, calls |-> 1,
               available |-> available]
         ELSE [path |-> "real", args |-> recursive_call(args), depth |-> 1, calls |-> 2,
               available |-> available]

\* a mock branch that salts the seed with the size of the registry
mock_keypair_salted(family, security_level, node_id) ==
    LET salt == str(Cardinality(DOMAIN mock_keypairs[family]))
        private_key == mock_private_key(family, security_level, Cat(node_id, salt))
    IN  [public_key |-> mock_public_key(family, security_level, private_key),
         private_key |-> private_key]

\* a mock branch whose public key changes with the size of the registry
mock_keypair_fresh_public(family, security_level, node_id) ==
    LET private_key == mock_private_key(family, security_level, node_id) IN
    [public_key |-> mock_public_key(family, security_level,
                        Cat(private_key, str(Cardinality(DOMAIN mock_keypairs[family])))),
     private_key |-> private_key]
\* the mock branch of generate_keypair for a node id
mock_keypair(family, security_level, node_id) ==
    LET private_key == mock_private_key(family, security_level, node_id) IN
    [public_key |-> mock_public_key(family, security_level, private_key),
     private_key |-> private_key]

\* what instances[i].generate_keypair() returns to thread t
generate_keypair_value(i, t, backend_raises) ==
    LET obj == instances[i]
        r == run(obj, <<>>, backend_raises)
    IN  IF r.path = "mock"
        THEN mock_keypair(obj.family, obj.security_level, get_node_id(t))
        ELSE oqs_generate_keypair(obj.signer, Len(oqs_keys) + 1)

\* a sign whose mock branch signs the level along with the message
sign_value_levelled(i, private_key, message, backend_raises) ==
    LET obj == instances[i]
        r == run(obj, <<private_key, message>>, backend_raises)
    IN  IF r.path = "mock"
        THEN mock_sign(obj.family, r.args[1], Cat(str(obj.security_level), r.args[2]))
        ELSE oqs_sign(obj.variant, r.args[1], r.args[2])
\* what instances[i].sign(private_key, message) returns
sign_value(i, private_key, message, backend_raises) ==
    LET obj == instances[i]
        r == run(obj, <<private_key, message>>, backend_raises)
    IN  IF r.path = "mock" THEN mock_sign(obj.family, r.args[1], r.args[2])
        ELSE oqs_sign(obj.variant, r.args[1], r.args[2])

\* what instances[i].verify(public_key, message, signature) returns
verify_value(i, public_key, message, signature, backend_raises) ==
    LET obj == instances[i]
        r == run(obj, <<public_key, message, signature>>, backend_raises)
    IN  IF r.path = "mock"
        THEN mock_verify(obj.family, mock_keypairs[obj.family], r.args[1], r.args[2],
                         r.args[3])
        ELSE oqs_verify(obj.variant, r.args[2], r.args[3], r.args[1], oqs_keys)

\* the record of a method call that returned
Returned(op, i, r) ==
    [NoCall EXCEPT !.op = op, !.inst = i, !.path = r.path, !.depth = r.depth,
                   !.calls = r.calls, !.flag0 = LIBOQS_AVAILABLE]

\* ------------------------------------------------------------ callers
\* the key pairs generate_keypair has returned so far
ReturnedPairs ==
    {[public_key |-> x.public_key, private_key |-> x.private_key] : x \in returned}

\* a key pair of a peer, made elsewhere
PeerPair == [public_key |-> Raw("peer-pk", 32), private_key |-> Raw("peer-sk", 32)]

\* the key pairs a caller can hold
KnownPairs == ReturnedPairs \cup {PeerPair}

\* a signature with one bit flipped
Tampered(signature) == [v |-> "flip(" \o signature.v \o ")", n |-> signature.n]

\* the signatures a caller passes to instances[i].verify for a key pair and
\* a message: 32 bytes of noise, and what the instance signs with the
\* private key of the pair on either message
SignatureInputs(i, pair) ==
    {Raw("junk", 32)} \cup {sign_value(i, pair.private_key, m, FALSE) : m \in Messages}

\* ------------------------------------------------------------ methods
\* instances[i].generate_keypair() on thread t
generate_keypair(t, i, backend_raises) ==
    /\ instances[i].exists
    /\ LET obj == instances[i]
           r == run(obj, <<>>, backend_raises)
           pair == generate_keypair_value(i, t, backend_raises)
       IN  /\ r.path = "real" => Len(oqs_keys) < MaxRealKeys
           /\ LIBOQS_AVAILABLE' = r.available
           /\ mock_keypairs' =
                  IF r.path = "mock"
                  THEN [mock_keypairs EXCEPT ![obj.family] =
                            dict_set(@, pair.public_key, pair.private_key)]
                  ELSE mock_keypairs
           /\ oqs_keys' = IF r.path = "real" THEN Append(oqs_keys, obj.signer)
                          ELSE oqs_keys
           /\ returned' = returned \cup
                  {[inst |-> i, path |-> r.path,
                    node_id |-> IF r.path = "mock" THEN get_node_id(t) ELSE Empty,
                    public_key |-> pair.public_key, private_key |-> pair.private_key]}
           /\ last' = [Returned("generate_keypair", i, r) EXCEPT
                           !.node_id = IF r.path = "mock" THEN get_node_id(t) ELSE Empty,
                           !.ret_public_key = pair.public_key,
                           !.ret_private_key = pair.private_key]
    /\ UNCHANGED <<NODE_ID, enabled_mechanisms, instances, frames>>

\* instances[i].sign(private_key, message)
sign(i, private_key, message, backend_raises) ==
    /\ instances[i].exists
    /\ LET r == run(instances[i], <<private_key, message>>, backend_raises) IN
       /\ LIBOQS_AVAILABLE' = r.available
       /\ last' = [Returned("sign", i, r) EXCEPT
                       !.ret_len = BLen(sign_value(i, private_key, message, backend_raises))]
    /\ UNCHANGED <<NODE_ID, enabled_mechanisms, instances, mock_keypairs, oqs_keys, returned,
                 frames>>

\* instances[i].verify(public_key, message, signature)
verify(i, public_key, message, signature, backend_raises) ==
    /\ instances[i].exists
    /\ LET obj == instances[i]
           r == run(obj, <<public_key, message, signature>>, backend_raises)
       IN  /\ LIBOQS_AVAILABLE' = r.available
           /\ last' = [Returned("verify", i, r) EXCEPT
                           !.ret_ok = verify_value(i, public_key, message, signature,
                                                   backend_raises),
                           !.found = /\ r.path = "mock"
                                     /\ Truthy(dict_get(mock_keypairs[obj.family], r.args[1]))]
    /\ UNCHANGED <<NODE_ID, enabled_mechanisms, instances, mock_keypairs, oqs_keys, returned,
                 frames>>

\* ------------------------------------------------------------ name
\* the text each class puts in front of the level
name_prefix(family) ==
    IF family = Dilithium THEN "CRYSTALS-Dilithium (Level " ELSE "SPHINCS+ (Level "

\* a name that looks at the signer only
name_signer_only(available, obj) ==
    <<name_prefix(obj.family), ToString(obj.security_level), ")">>
    \o (IF obj.signer # None THEN <<>> ELSE <<" [Mock]">>)

\* the property name of both classes: the pieces of the f-string
name(available, obj) ==
    <<name_prefix(obj.family), ToString(obj.security_level), ")">>
    \o (IF available /\ obj.signer # None THEN <<>> ELSE <<" [Mock]">>)

\* reading instances[i].name
read_name(i) ==
    /\ instances[i].exists
    /\ last' = [NoCall EXCEPT !.op = "name", !.inst = i, !.flag0 = LIBOQS_AVAILABLE,
                              !.ret_name = name(LIBOQS_AVAILABLE, instances[i])]
    /\ UNCHANGED <<LIBOQS_AVAILABLE, NODE_ID, enabled_mechanisms, instances, mock_keypairs,
                   oqs_keys, returned, frames>>

\* ------------------------------------------------------------ the program
\* the backend can raise only where it is called
BackendOutcomes(i) == IF use_mock(LIBOQS_AVAILABLE, instances[i]) THEN {FALSE} ELSE BOOLEAN

Next ==
    \/ \E family \in Families, security_level \in LevelInputs,
          enum_raises \in BOOLEAN, signature_raises \in BOOLEAN :
          Construct(family, security_level, enum_raises, signature_raises)
    \/ \E t \in Threads, i \in Slots : \E backend_raises \in BackendOutcomes(i) :
          generate_keypair(t, i, backend_raises)
    \/ \E i \in Slots, pair \in KnownPairs, message \in Messages :
          \E backend_raises \in BackendOutcomes(i) :
              sign(i, pair.private_key, message, backend_raises)
    \/ \E i \in Slots, pair \in KnownPairs, message \in Messages :
          \E signature \in SignatureInputs(i, pair), backend_raises \in BackendOutcomes(i) :
              verify(i, pair.public_key, message, signature, backend_raises)
    \/ \E i \in Slots : read_name(i)

Spec == Init /\ [][Next]_vars

\* ------------------------------------------------------------ interleaved calls
\* The same methods taken statement by statement, for calls that several
\* threads make at once on the instances that exist: the test at the head
\* of the method, the mock branch, the try block, the except clause and its
\* recursive call.  The flag is read in the test only.

\* the process after module load and the construction of one instance, or
\* of two instances of one class, at level 3, with the backend missing,
\* failing or working
InitCalls(count) ==
    /\ NODE_ID \in {None, "node-A"}
    /\ enabled_mechanisms = Mechanisms
    /\ \E available \in BOOLEAN, family \in Families,
          enum_raises \in BOOLEAN, signature_raises \in BOOLEAN :
          LET r == init_instance(family, 3, available, enum_raises, signature_raises)
              s == init_instance(family, 3, r.available, FALSE, signature_raises)
          IN  /\ LIBOQS_AVAILABLE = IF count = 1 THEN r.available ELSE s.available
              /\ instances = [i \in Slots |-> IF i = 1 THEN r.obj
                                              ELSE IF i = 2 /\ count = 2 THEN s.obj
                                              ELSE NoInstance]
    /\ mock_keypairs = [f \in Families |-> <<>>]
    /\ oqs_keys = <<>>
    /\ returned = {}
    /\ frames = [t \in Threads |-> Idle]
    /\ last = NoCall

InitThreads == InitCalls(1)

InitShared == InitCalls(2)

\* the generate_keypair calls in flight that may still ask the backend
PendingRealKeys ==
    Cardinality({t \in Threads : /\ frames[t].op = "generate_keypair"
                                 /\ frames[t].pc \in {"test", "try"}
                                 /\ frames[t].depth = 0})

\* the public keys that mock generate_keypair calls of a family have
\* returned so far
GeneratedKeys(family) ==
    {r.public_key : r \in {q \in returned : /\ q.path = "mock"
                                            /\ instances[q.inst].family = family}}

\* the public keys verify is called with: the mock keys of the family's
\* instances for the calling threads, generated yet or not
VerifyKeys(family) ==
    {mock_keypair(family, instances[i].security_level, get_node_id(t)).public_key :
         i \in {j \in Slots : instances[j].exists /\ instances[j].family = family},
         t \in Threads}

\* the public_key argument of a call of op on instances[i], if it has one
KeyArguments(op, i) ==
    IF op = "verify" /\ instances[i].exists
    THEN {{k} : k \in VerifyKeys(instances[i].family)}
    ELSE {{}}

\* thread t calls a method of instances[i]; the frame notes whether a mock
\* generate_keypair that returned public_key had completed by then
Call(t, op, i, public_key) ==
    /\ frames[t].pc = "idle"
    /\ instances[i].exists
    /\ (op = "generate_keypair" /\ ~use_mock(LIBOQS_AVAILABLE, instances[i])) =>
           Len(oqs_keys) + PendingRealKeys < MaxRealKeys
    /\ frames' = [frames EXCEPT ![t] =
                     [pc |-> "test", op |-> op, inst |-> i, depth |-> 0, calls |-> 0,
                      flag0 |-> LIBOQS_AVAILABLE, public_key |-> public_key,
                      registered0 |-> public_key \subseteq GeneratedKeys(instances[i].family)
                                      /\ public_key # {}]]
    /\ UNCHANGED <<LIBOQS_AVAILABLE, NODE_ID, enabled_mechanisms, instances, mock_keypairs,
                   oqs_keys, returned, last>>

\* "if not LIBOQS_AVAILABLE or self.signer is None:"
Test(t) ==
    /\ frames[t].pc = "test"
    /\ frames' = [frames EXCEPT ![t].pc =
                     IF use_mock(LIBOQS_AVAILABLE, instances[frames[t].inst])
                     THEN "mock" ELSE "try"]
    /\ UNCHANGED <<LIBOQS_AVAILABLE, NODE_ID, enabled_mechanisms, instances, mock_keypairs,
                   oqs_keys, returned, last>>

\* the mock branch up to its last statement: generate_keypair stores the
\* pair in the class's registry, verify looks its public key up there and
\* takes the branch of the private key it finds or does not find, sign
\* computes its signature
Mock(t) ==
    /\ frames[t].pc = "mock"
    /\ LET obj == instances[frames[t].inst]
           pair == mock_keypair(obj.family, obj.security_level, get_node_id(t))
       IN  CASE frames[t].op = "generate_keypair" ->
                  /\ mock_keypairs' = [mock_keypairs EXCEPT ![obj.family] =
                                          dict_set(@, pair.public_key, pair.private_key)]
                  /\ frames' = [frames EXCEPT ![t].pc = "stored"]
             [] frames[t].op = "verify" ->
                  /\ frames' = [frames EXCEPT ![t].pc =
                         IF \E k \in frames[t].public_key :
                                Truthy(dict_get(mock_keypairs[obj.family], k))
                         THEN "hit" ELSE "miss"]
                  /\ UNCHANGED mock_keypairs
             [] OTHER ->
                  /\ frames' = [frames EXCEPT ![t].pc = "signed"]
                  /\ UNCHANGED mock_keypairs
    /\ UNCHANGED <<LIBOQS_AVAILABLE, NODE_ID, enabled_mechanisms, instances, oqs_keys,
                   returned, last>>

\* the return of the mock branch (of the recursive call too, which returns
\* to the caller through the except clause)
Return(t) ==
    /\ frames[t].pc \in {"stored", "hit", "miss", "signed"}
    /\ LET obj == instances[frames[t].inst]
           pair == mock_keypair(obj.family, obj.security_level, get_node_id(t))
       IN  returned' = IF frames[t].op = "generate_keypair"
                       THEN returned \cup
                               {[inst |-> frames[t].inst, path |-> "mock",
                                 node_id |-> get_node_id(t),
                                 public_key |-> pair.public_key,
                                 private_key |-> pair.private_key]}
                       ELSE returned
    /\ frames' = [frames EXCEPT ![t] = Idle]
    /\ UNCHANGED <<LIBOQS_AVAILABLE, NODE_ID, enabled_mechanisms, instances, mock_keypairs,
                   oqs_keys, last>>

\* the try block: the backend call returns, or raises into the except clause
Try(t, backend_raises) ==
    /\ frames[t].pc = "try"
    /\ IF backend_raises
       THEN /\ frames' = [frames EXCEPT ![t].pc = "except", ![t].calls = @ + 1]
            /\ UNCHANGED <<oqs_keys, returned>>
       ELSE /\ frames' = [frames EXCEPT ![t] = Idle]
            /\ IF frames[t].op = "generate_keypair"
               THEN LET signer == instances[frames[t].inst].signer
                        pair == oqs_generate_keypair(signer, Len(oqs_keys) + 1)
                    IN  /\ oqs_keys' = Append(oqs_keys, signer)
                        /\ returned' = returned \cup
                               {[inst |-> frames[t].inst, path |-> "real",
                                 node_id |-> Empty, public_key |-> pair.public_key,
                                 private_key |-> pair.private_key]}
               ELSE UNCHANGED <<oqs_keys, returned>>
    /\ UNCHANGED <<LIBOQS_AVAILABLE, NODE_ID, enabled_mechanisms, instances, mock_keypairs,
                   last>>

\* the except clause: LIBOQS_AVAILABLE = False, then the recursive call
Except(t) ==
    /\ frames[t].pc = "except"
    /\ frames[t].depth < MaxDepth
    /\ LIBOQS_AVAILABLE' = except_flag(LIBOQS_AVAILABLE)
    /\ frames' = [frames EXCEPT ![t].pc = "test", ![t].depth = @ + 1]
    /\ UNCHANGED <<NODE_ID, enabled_mechanisms, instances, mock_keypairs, oqs_keys,
                   returned, last>>

\* a step of the call thread t is in
Step(t) == Test(t) \/ Mock(t) \/ Return(t)
           \/ (\E backend_raises \in BOOLEAN : Try(t, backend_raises)) \/ Except(t)

NextThreads ==
    \/ \E t \in Threads, op \in {"generate_keypair", "sign", "verify"}, i \in Slots :
          \E public_key \in KeyArguments(op, i) : Call(t, op, i, public_key)
    \/ \E t \in Threads : Test(t)
    \/ \E t \in Threads : Mock(t)
    \/ \E t \in Threads : Return(t)
    \/ \E t \in Threads, backend_raises \in BOOLEAN : Try(t, backend_raises)
    \/ \E t \in Threads : Except(t)

\* every thread that is in a call gets to run
SpecThreads ==
    InitThreads /\ [][NextThreads]_vars /\ \A t \in Threads : WF_vars(Step(t))

\* the same with two instances that share their class's registry
SpecShared ==
    InitShared /\ [][NextThreads]_vars /\ \A t \in Threads : WF_vars(Step(t))

\* ------------------------------------------------------------ vocabulary of the properties
Methods == {"generate_keypair", "sign", "verify"}

\* the levels each family supports
SupportedLevels(family) == IF family = Dilithium THEN {2, 3, 5} ELSE {1, 3, 5}

\* the length of a mock signature of each family
MockLength(family) == IF family = Dilithium THEN 32 ELSE 48

\* instance i exists and is in mock mode: the flag is down or it has no signer
MockMode(i) ==
    /\ instances[i].exists
    /\ (~LIBOQS_AVAILABLE \/ instances[i].signer = None)

Supported(i) == instances[i].security_level \in SupportedLevels(instances[i].family)

\* the signatures tried on instances[i].verify for a key pair: what either
\* family's mock and the instance itself sign with the private key on
\* either message, each of them with a bit flipped, noise of both mock
\* lengths, and b""
SignatureUniverse(i, pair) ==
    LET made == SignatureInputs(i, pair)
                \cup {mock_sign(f, pair.private_key, m) : f \in Families, m \in Messages}
    IN  made \cup {Tampered(sig) : sig \in made} \cup {Raw("junk", 48), Empty}

\* two threads observe the same node identity: NODE_ID is set, or they are
\* the same thread
SameNode(t1, t2) == NODE_ID # None \/ t1 = t2

\* the key pairs generate_keypair of instances[i] has returned, in either
\* mode, and from its mock branch
ReturnedBy(i) ==
    {[public_key |-> x.public_key, private_key |-> x.private_key] :
        x \in {y \in returned : y.inst = i}}

MockReturned(i) ==
    {[public_key |-> x.public_key, private_key |-> x.private_key] :
        x \in {y \in returned : y.inst = i /\ y.path = "mock"}}

\* ------------------------------------------------------------ C1
\* C1: in mock mode, for every family, supported level and message m, the
\* pair (pub, priv) that generate_keypair returned verifies what it signs:
\* verify(pub, m, sign(priv, m)) is true.  (The pairs of the mock branch,
\* and those the backend gave the instance before it fell to mock mode.)
C1_MockRoundTrip ==
    \A i \in Slots :
        (MockMode(i) /\ Supported(i)) =>
            \A pair \in ReturnedBy(i), m \in Messages :
                verify_value(i, pair.public_key, m,
                             sign_value(i, pair.private_key, m, FALSE), FALSE)

\* a mock verify found the key of a generated pair and returned true, on a
\* SPHINCS instance of a supported level
C1_Witness ==
    /\ last.op = "verify" /\ last.path = "mock" /\ last.found /\ last.ret_ok
    /\ instances[last.inst].family = SPHINCS /\ Supported(last.inst)
    /\ MockReturned(last.inst) # {}

\* ------------------------------------------------------------ C2
\* C2: once the flag is Unavailable, every generate_keypair, sign and verify
\* call that starts afterwards, on every instance of every family (those
\* constructed with a working signer included), takes the mock path and
\* makes no backend call.
C2_DowngradedCallsAreMock ==
    /\ (last.op \in Methods /\ ~last.flag0) =>
           (last.path = "mock" /\ last.calls = 0 /\ last.depth = 0)
    /\ ~LIBOQS_AVAILABLE =>
           \A i \in Slots : instances[i].exists =>
               \A backend_raises \in BOOLEAN :
                   LET r == run(instances[i], <<>>, backend_raises) IN
                   r.path = "mock" /\ r.calls = 0

\* a call that started with the flag down, on an instance that has a signer
C2_Witness ==
    /\ last.op \in Methods /\ ~last.flag0
    /\ instances[last.inst].signer # None
    /\ last.path = "mock"

\* ------------------------------------------------------------ C3
\* C3: the flag only ever changes from Available to Unavailable: no step of
\* any construction or operation changes it from Unavailable to Available.
C3_FlagMonotone == [][LIBOQS_AVAILABLE' => LIBOQS_AVAILABLE]_vars

\* the flag went down in a constructor that started with it up, and a real
\* instance made before is still there
C3_Witness ==
    /\ ~LIBOQS_AVAILABLE /\ last.op = "init" /\ last.flag0
    /\ \E i \in Slots : instances[i].signer # None

\* ------------------------------------------------------------ C4
\* C4: when a real-backend generate_keypair, sign or verify raises, the
\* caller sees no failure: the flag becomes Unavailable, the operation runs
\* again on the mock path with the same arguments, and what is returned is
\* exactly the mock path's result.
C4_RetryReturnsMockResult ==
    /\ last.depth > 0 =>
           /\ last.depth = 1 /\ last.path = "mock" /\ last.flag0 /\ last.calls = 1
           /\ ~LIBOQS_AVAILABLE
           /\ last.op = "generate_keypair" =>
                  LET obj == instances[last.inst]
                      pair == [public_key |-> last.ret_public_key,
                               private_key |-> last.ret_private_key]
                  IN  /\ last.ret_private_key =
                             mock_private_key(obj.family, obj.security_level, last.node_id)
                      /\ last.ret_public_key =
                             mock_public_key(obj.family, obj.security_level,
                                             last.ret_private_key)
                      /\ dict_get(mock_keypairs[obj.family], last.ret_public_key)
                             = {last.ret_private_key}
           /\ last.op = "sign" => last.ret_len = MockLength(instances[last.inst].family)
    /\ \A i \in Slots :
           (instances[i].exists /\ ~MockMode(i)) =>
               LET obj == instances[i] IN
               /\ \A args \in {<<>>, <<hello>>, <<hello, hallo>>} :
                      LET r == run(obj, args, TRUE) IN
                      /\ r.path = "mock" /\ r.depth = 1 /\ r.args = args
                      /\ ~r.available
               /\ \A t \in Threads :
                      generate_keypair_value(i, t, TRUE)
                          = mock_keypair(obj.family, obj.security_level, get_node_id(t))
               /\ \A pair \in KnownPairs, m \in Messages :
                      /\ sign_value(i, pair.private_key, m, TRUE)
                             = mock_sign(obj.family, pair.private_key, m)
                      /\ \A sig \in SignatureUniverse(i, pair) :
                             verify_value(i, pair.public_key, m, sig, TRUE)
                                 = mock_verify(obj.family, mock_keypairs[obj.family],
                                               pair.public_key, m, sig)

\* a verify whose backend call raised returned from the mock path
C4_Witness ==
    /\ last.op = "verify" /\ last.depth = 1 /\ last.path = "mock"
    /\ instances[last.inst].signer # None

\* ------------------------------------------------------------ C5
\* C5: constructing an instance with a level outside the family's supported
\* set fails with an invalid-parameter error whether the flag is Available
\* or Unavailable; no instance with an unsupported level is ever created.
C5_UnsupportedLevelRejected ==
    /\ \A i \in Slots : instances[i].exists => Supported(i)
    /\ (last.op = "init" /\ last.security_level \notin SupportedLevels(last.family)) =>
           last.raised = "ValueError"

\* ------------------------------------------------------------ C6
\* C6: in mock mode, for a public key that is not in the family's registry,
\* verify(public_key, m, signature) is true if and only if the signature is
\* as long as the family's mock signatures (32 for Dilithium, 48 for
\* SPHINCS), for every message and whatever the signature holds.
C6_RegistryMissIsLengthCheck ==
    \A i \in Slots :
        MockMode(i) =>
            \A pair \in KnownPairs :
                pair.public_key \notin DOMAIN mock_keypairs[instances[i].family] =>
                    \A m \in Messages, sig \in SignatureUniverse(i, pair) :
                        verify_value(i, pair.public_key, m, sig, FALSE)
                            = (BLen(sig) = MockLength(instances[i].family))

\* a mock verify that found no key returned true on a Dilithium instance
C6_Witness ==
    /\ last.op = "verify" /\ last.path = "mock" /\ ~last.found /\ last.ret_ok
    /\ instances[last.inst].family = Dilithium

\* ------------------------------------------------------------ C7
\* C7: in mock mode, for a public key that is in the family's registry,
\* verify(pub, m, sig') is false for every sig' that differs from
\* sign(priv, m) in a bit or in length, and true only for sig' equal to the
\* recomputed signature.
C7_RegistryHitIsExactMatch ==
    \A i \in Slots :
        MockMode(i) =>
            LET registry == mock_keypairs[instances[i].family] IN
            \A pair \in KnownPairs :
                (pair.public_key \in DOMAIN registry
                 /\ pair.private_key = registry[pair.public_key]) =>
                    \A m \in Messages, sig \in SignatureUniverse(i, pair) :
                        verify_value(i, pair.public_key, m, sig, FALSE)
                            = (sig = sign_value(i, pair.private_key, m, FALSE))

\* a mock verify that found the key returned false
C7_Witness ==
    /\ last.op = "verify" /\ last.path = "mock" /\ last.found /\ ~last.ret_ok
    /\ last.depth = 0

\* ------------------------------------------------------------ C8
\* C8: on one instance of a supported level, after generate_keypair gave
\* (pub, priv): with sig = sign(priv, m), verify(pub, m, sig) is true and
\* verify(pub, m', sig) is false for m' # m, whatever mode the instance is
\* in at each step, a downgrade between two of the steps included.
C8_Scenario ==
    \A i \in Slots :
        (instances[i].exists /\ Supported(i)) =>
            \A pair \in ReturnedBy(i), m \in Messages :
                LET sig == sign_value(i, pair.private_key, m, FALSE) IN
                /\ verify_value(i, pair.public_key, m, sig, FALSE)
                /\ \A m2 \in Messages \ {m} :
                       ~verify_value(i, pair.public_key, m2, sig, FALSE)

\* ------------------------------------------------------------ C9
\* C9: for fixed arguments (public_key, message, signature), every verify
\* call on the same instance returns the same boolean in every reachable
\* state, before and after a downgrade triggered by any instance.
C9_VerifyStable ==
    [][\A i \in Slots :
          instances[i].exists =>
              \A pair \in KnownPairs, m \in Messages :
                  \A sig \in SignatureUniverse(i, pair) :
                      verify_value(i, pair.public_key, m, sig, FALSE)'
                          = verify_value(i, pair.public_key, m, sig, FALSE)]_vars

\* ------------------------------------------------------------ C10
\* C10: in mock mode, two instances of one family constructed with the same
\* level and observing the same node identity return the same
\* (public_key, private_key) from generate_keypair, on every call, whatever
\* the registry holds and whatever ran before.
C10_MockKeysDeterministic ==
    /\ \A x \in returned, y \in returned :
           (/\ x.path = "mock" /\ y.path = "mock"
            /\ instances[x.inst].family = instances[y.inst].family
            /\ instances[x.inst].security_level = instances[y.inst].security_level
            /\ x.node_id = y.node_id) =>
               (x.public_key = y.public_key /\ x.private_key = y.private_key)
    /\ \A x \in returned, j \in Slots, t \in Threads :
           (/\ x.path = "mock" /\ MockMode(j)
            /\ instances[x.inst].family = instances[j].family
            /\ instances[x.inst].security_level = instances[j].security_level
            /\ \E t0 \in Threads : x.node_id = get_node_id(t0) /\ SameNode(t0, t)) =>
               LET pair == generate_keypair_value(j, t, FALSE) IN
               x.public_key = pair.public_key /\ x.private_key = pair.private_key

\* two instances of one family and level have each returned a pair from the
\* mock branch under one node identity, the second of them in the latest call
C10_Witness ==
    \E x \in returned, y \in returned :
        /\ x.inst = 1 /\ y.inst = 2 /\ x.path = "mock" /\ y.path = "mock"
        /\ instances[1].family = instances[2].family
        /\ instances[1].security_level = instances[2].security_level
        /\ x.node_id = y.node_id
        /\ last.op = "generate_keypair" /\ last.inst = 2

\* ------------------------------------------------------------ C13
\* C13: in real mode a verify call in which the backend reports that the
\* signature does not match returns false and leaves the flag Available;
\* only a backend call that raises changes the flag.
C13_MismatchKeepsFlag ==
    /\ (last.op = "verify" /\ last.path = "real") =>
           (last.depth = 0 /\ last.flag0 /\ LIBOQS_AVAILABLE)
    /\ (last.op \in Methods /\ last.flag0 /\ ~LIBOQS_AVAILABLE) =>
           (last.depth = 1 /\ last.calls = 1)
    /\ \A i \in Slots :
           (instances[i].exists /\ ~MockMode(i)) =>
               \A pair \in KnownPairs, m \in Messages :
                   \A sig \in SignatureUniverse(i, pair) :
                       LET r == run(instances[i], <<pair.public_key, m, sig>>, FALSE) IN
                       /\ r.path = "real" /\ r.available
                       /\ ~oqs_verify(instances[i].variant, m, sig, pair.public_key,
                                      oqs_keys) =>
                              ~verify_value(i, pair.public_key, m, sig, FALSE)

\* a real verify has returned false and the flag is still up
C13_Witness ==
    /\ last.op = "verify" /\ last.path = "real" /\ ~last.ret_ok
    /\ LIBOQS_AVAILABLE

\* ------------------------------------------------------------ C14
\* the name ends in the mock qualifier
HasMockQualifier(text) == Len(text) > 0 /\ text[Len(text)] = " [Mock]"

\* C14: in every reachable state and for every instance, name carries
\* "[Mock]" if and only if a generate_keypair, sign or verify call started
\* on the instance in that state would take the mock path; after a
\* downgrade triggered elsewhere the name of every instance reports mock.
C14_NameTellsMode ==
    /\ \A i \in Slots :
           instances[i].exists =>
               /\ HasMockQualifier(name(LIBOQS_AVAILABLE, instances[i]))
                      <=> (run(instances[i], <<>>, FALSE).path = "mock")
               /\ ~LIBOQS_AVAILABLE =>
                      HasMockQualifier(name(LIBOQS_AVAILABLE, instances[i]))
    /\ last.op = "name" =>
           (HasMockQualifier(last.ret_name)
                <=> (~last.flag0 \/ instances[last.inst].signer = None))

\* the name of an instance that has a signer was read after a downgrade
\* and carried the qualifier
C14_Witness ==
    /\ last.op = "name" /\ HasMockQualifier(last.ret_name)
    /\ instances[last.inst].signer # None

\* ------------------------------------------------------------ C15
\* C15: whenever a construction is rejected for an invalid level, that call
\* has changed neither the flag nor any mock key registry (nor anything else
\* that is shared): the rejection comes before shared state is touched.
C15_RejectionTouchesNothing ==
    [][(last'.op = "init" /\ last'.raised = "ValueError") =>
           /\ LIBOQS_AVAILABLE' = LIBOQS_AVAILABLE
           /\ mock_keypairs' = mock_keypairs
           /\ instances' = instances
           /\ oqs_keys' = oqs_keys]_vars

\* a construction was rejected while a real instance held a backend key
C15_Witness ==
    /\ last.op = "init" /\ last.raised = "ValueError"
    /\ last.security_level \notin SupportedLevels(last.family)
    /\ LIBOQS_AVAILABLE /\ oqs_keys # <<>>

\* ------------------------------------------------------------ C16
\* C16 as stated: in mock mode, for a pair (pub, priv) from generate_keypair
\* and any other public key pub', verify(pub', m, sign(priv, m)) is false,
\* whether or not pub' is in the registry.
C16_OtherKeyRejected ==
    \A i \in Slots :
        MockMode(i) =>
            \A pair \in ReturnedBy(i), other \in KnownPairs, m \in Messages :
                other.public_key # pair.public_key =>
                    ~verify_value(i, other.public_key, m,
                                  sign_value(i, pair.private_key, m, FALSE), FALSE)

\* C16 amended: in mock mode, for a pair (pub, priv) from generate_keypair
\* and any other public key pub', verify(pub', m, sign(priv, m)) is false
\* when pub' is in the family's registry, and true when it is not (the
\* signature has the family's mock length).
C16_OtherKeyRejectedIfRegistered ==
    \A i \in Slots :
        MockMode(i) =>
            \A pair \in ReturnedBy(i), other \in KnownPairs, m \in Messages :
                other.public_key # pair.public_key =>
                    (verify_value(i, other.public_key, m,
                                  sign_value(i, pair.private_key, m, FALSE), FALSE)
                        <=> other.public_key \notin DOMAIN mock_keypairs[instances[i].family])

\* a mock verify found a key and returned false, on an instance that has
\* generated a pair, in a family whose registry holds two keys
C16_Witness ==
    /\ last.op = "verify" /\ last.path = "mock" /\ last.found /\ ~last.ret_ok
    /\ MockReturned(last.inst) # {}
    /\ Cardinality(DOMAIN mock_keypairs[instances[last.inst].family]) >= 2

\* ------------------------------------------------------------ C17
\* C17: with NODE_ID absent, any two mock generate_keypair calls for the
\* same (family, level) made in the process, from whichever threads, return
\* the same key pair.
C17_SameKeysAcrossThreads ==
    NODE_ID = None =>
        \A x \in returned, y \in returned :
            (/\ x.path = "mock" /\ y.path = "mock"
             /\ instances[x.inst].family = instances[y.inst].family
             /\ instances[x.inst].security_level = instances[y.inst].security_level) =>
                (x.public_key = y.public_key /\ x.private_key = y.private_key)

\* ------------------------------------------------------------ C18
\* C18: every value a mock-path operation returns has the mock shape:
\* generate_keypair returns 32-byte public and private keys, Dilithium sign
\* returns 32 bytes and SPHINCS sign 48 bytes, for every private key and
\* message passed in (keys made by the backend before a downgrade included).
C18_MockShapes ==
    /\ (last.op = "generate_keypair" /\ last.path = "mock") =>
           (BLen(last.ret_public_key) = 32 /\ BLen(last.ret_private_key) = 32)
    /\ (last.op = "sign" /\ last.path = "mock") =>
           last.ret_len = (IF instances[last.inst].family = Dilithium THEN 32 ELSE 48)
    /\ \A i \in Slots :
           MockMode(i) =>
               /\ \A t \in Threads :
                      LET pair == generate_keypair_value(i, t, FALSE) IN
                      BLen(pair.public_key) = 32 /\ BLen(pair.private_key) = 32
               /\ \A pair \in KnownPairs \cup {[public_key |-> Empty, private_key |-> Empty]},
                     m \in Messages \cup {Empty} :
                      BLen(sign_value(i, pair.private_key, m, FALSE))
                          = (IF instances[i].family = Dilithium THEN 32 ELSE 48)

\* a SPHINCS instance that got a key pair from the backend has signed on
\* the mock path
C18_Witness ==
    /\ last.op = "sign" /\ last.path = "mock" /\ last.ret_len = 48
    /\ \E x \in returned : x.inst = last.inst /\ x.path = "real"

\* ------------------------------------------------------------ C19
\* no mechanism of the level is enabled in the backend
NoVariantEnabled(family, security_level) ==
    \A k \in 1..Len(variants(family)[security_level]) :
        variants(family)[security_level][k] \notin enabled_mechanisms

\* C19: a constructor never reports backend unavailability: with a
\* supported level it succeeds when the backend is missing, when the
\* enumeration raises, when no variant is available and when creating the
\* signer raises, and the instance then operates in mock mode.
C19_ConstructorHidesBackendFailure ==
    /\ (last.op = "init" /\ last.security_level \in SupportedLevels(last.family)) =>
           /\ last.raised = None
           /\ instances[last.inst].exists
           /\ instances[last.inst].family = last.family
           /\ instances[last.inst].security_level = last.security_level
           /\ (~last.flag0 \/ instances[last.inst].signer = None) =>
                  (instances[last.inst].signer = None /\ ~LIBOQS_AVAILABLE
                   /\ MockMode(last.inst))
    /\ \A family \in Families :
           \A security_level \in SupportedLevels(family),
              enum_raises \in BOOLEAN, signature_raises \in BOOLEAN :
               LET r == init_instance(family, security_level, LIBOQS_AVAILABLE,
                                      enum_raises, signature_raises)
               IN  /\ r.raised = None /\ r.obj.exists
                   /\ (\/ ~LIBOQS_AVAILABLE \/ enum_raises \/ signature_raises
                       \/ NoVariantEnabled(family, security_level)) =>
                          (r.obj.signer = None /\ ~r.available)

\* a constructor whose signer could not be created returned an instance,
\* and the flag went down
C19_Witness ==
    /\ last.op = "init" /\ last.raised = None /\ last.flag0 /\ ~LIBOQS_AVAILABLE
    /\ instances[last.inst].variant # None /\ instances[last.inst].signer = None
    /\ MockMode(last.inst)

\* ------------------------------------------------------------ C20
\* C20: the flag is Unavailable right after a construction whose mechanism
\* resolution finds no variant for the level, and right after a
\* real-backend generate_keypair, sign or verify call that raised; a trigger
\* from an instance of one family switches the real-mode instances of the
\* other family to the mock path.
C20_TriggersClearFlag ==
    /\ (/\ last.op = "init" /\ last.flag0 /\ last.raised = None
        /\ last.security_level \in SupportedLevels(last.family)
        /\ NoVariantEnabled(last.family, last.security_level)) => ~LIBOQS_AVAILABLE
    /\ (last.op \in Methods /\ last.depth > 0) =>
           /\ ~LIBOQS_AVAILABLE
           /\ \A j \in Slots :
                  instances[j].exists =>
                      \A backend_raises \in BOOLEAN :
                          run(instances[j], <<>>, backend_raises).path = "mock"
    /\ \A i \in Slots :
           (instances[i].exists /\ ~MockMode(i)) =>
               ~run(instances[i], <<>>, TRUE).available

\* a SPHINCS call raised in the backend while a Dilithium instance with a
\* signer existed
C20_Witness ==
    /\ last.op \in Methods /\ last.depth = 1
    /\ instances[last.inst].family = SPHINCS
    /\ \E j \in Slots : instances[j].family = Dilithium /\ instances[j].signer # None
    /\ ~LIBOQS_AVAILABLE

\* a construction found no variant of a supported level while a real
\* instance existed, and the flag went down
C20_WitnessNoVariant ==
    /\ last.op = "init" /\ last.flag0 /\ last.raised = None
    /\ last.security_level \in SupportedLevels(last.family)
    /\ NoVariantEnabled(last.family, last.security_level)
    /\ \E j \in Slots : instances[j].signer # None


\* ------------------------------------------------------------ C11, C12 (interleaved calls)

\* the statements of a call that are outside the try block and the except
\* clause: the test and the mock branch
MockBranch == {"test", "mock", "stored", "hit", "miss", "signed"}

\* a call that thread t issued when the flag was already False
IssuedAfterDowngrade(t) == frames[t].pc # "idle" /\ ~frames[t].flag0

\* C11: with calls of several threads interleaved on one instance, a call
\* issued after the flag became False (whichever call made it so) never
\* enters the try block, so it never reaches the oqs signer, even on an
\* instance that holds one.
C11_LaterCallsSkipBackend ==
    \A t \in Threads :
        IssuedAfterDowngrade(t) =>
            /\ frames[t].pc \in MockBranch
            /\ frames[t].calls = 0
            /\ frames[t].depth = 0

\* thread u's call hit a backend error and is in its mock retry, and thread t
\* issued a later call on the same instance, which holds an oqs signer and
\* takes the mock branch
C11_Witness ==
    \E t, u \in Threads :
        /\ t # u
        /\ frames[u].depth = 1 /\ frames[u].calls = 1 /\ frames[u].pc = "mock"
        /\ IssuedAfterDowngrade(t) /\ frames[t].pc = "mock"
        /\ frames[t].inst = frames[u].inst
        /\ instances[frames[t].inst].signer # None

\* what every frame of a call satisfies
OneRetry(t) ==
    /\ frames[t].calls <= 1
    /\ frames[t].depth <= 1
    /\ frames[t].pc = "except" => frames[t].depth = 0
    /\ frames[t].depth = 1 =>
           /\ frames[t].calls = 1
           /\ frames[t].pc \in MockBranch
           /\ ~LIBOQS_AVAILABLE

\* C12: under every interleaving, a call makes at most one backend attempt
\* and at most one recursive call, the recursive call finds the flag False
\* and takes the mock branch, and every call that has started returns.
C12_OneRetryThenReturn ==
    /\ [](\A t \in Threads : OneRetry(t))
    /\ \A t \in Threads : (frames[t].pc # "idle") ~> (frames[t].pc = "idle")

\* a call in its recursive mock attempt while the other thread is at its own
\* backend attempt, which it started before the flag went down
C12_Witness ==
    \E t, u \in Threads :
        /\ t # u
        /\ frames[t].depth = 1 /\ frames[t].pc = "mock"
        /\ frames[u].pc = "try" /\ frames[u].depth = 0
        /\ ~LIBOQS_AVAILABLE


\* ------------------------------------------------------------ C21

\* C21: under every interleaving of threads, a thread that is about to make
\* its backend call (it is in the try block) finds LIBOQS_AVAILABLE True and
\* its instance holding a variant and a signer.
C21_BackendOnlyWhileAvailable ==
    \A t \in Threads :
        frames[t].pc = "try" =>
            /\ LIBOQS_AVAILABLE
            /\ instances[frames[t].inst].variant # None
            /\ instances[frames[t].inst].signer # None


\* ------------------------------------------------------------ C22

\* C22: with calls interleaved on two instances of a class, every pair a
\* mock generate_keypair has returned is in the class's registry under its
\* public key, and a verify call that started after such a return and took
\* the mock branch finds the private key there: it goes to the branch that
\* recomputes the signature, never to the length check.
C22_GeneratedKeyIsFound ==
    /\ \A r \in returned :
           r.path = "mock" =>
               dict_get(mock_keypairs[instances[r.inst].family], r.public_key)
                   = {r.private_key}
    /\ \A t \in Threads :
           (frames[t].op = "verify" /\ frames[t].registered0) => frames[t].pc # "miss"

\* a verify on one instance has found a key that only the other instance
\* generated, on the other thread, before the verify started
C22_Witness ==
    \E t \in Threads :
        /\ NODE_ID = None
        /\ frames[t].op = "verify" /\ frames[t].registered0 /\ frames[t].pc = "hit"
        /\ \A r \in returned :
               r.public_key \in frames[t].public_key =>
                   /\ r.inst # frames[t].inst
                   /\ r.node_id # get_node_id(t)


\* ------------------------------------------------------------ C23

\* C23: a step changes a class's registry only if it is a generate_keypair
\* of an instance of that class that returned from the mock branch, and then
\* the registry is the old one with the returned pair stored in it; every
\* other step (a construction, sign, verify, name, generate_keypair from the
\* backend, any method of the other class) leaves it as it was, and no step
\* removes or alters an entry that is not the returned key's.
C23_RegistryOnlyGrowsByMockGeneration ==
    [][\A f \in Families :
          /\ mock_keypairs'[f] # mock_keypairs[f] =>
                 /\ last'.op = "generate_keypair"
                 /\ last'.path = "mock"
                 /\ instances[last'.inst].family = f
                 /\ mock_keypairs'[f] =
                        dict_set(mock_keypairs[f], last'.ret_public_key,
                                 last'.ret_private_key)
          /\ DOMAIN mock_keypairs[f] \subseteq DOMAIN mock_keypairs'[f]
          /\ \A k \in DOMAIN mock_keypairs[f] :
                 k # last'.ret_public_key => mock_keypairs'[f][k] = mock_keypairs[f][k]
      ]_vars

\* a mock generate_keypair has just stored a second key in its class's
\* registry while the other class's registry holds a key of its own
C23_Witness ==
    /\ last.op = "generate_keypair" /\ last.path = "mock"
    /\ Cardinality(DOMAIN mock_keypairs[instances[last.inst].family]) = 2
    /\ \E f \in Families : f # instances[last.inst].family /\ DOMAIN mock_keypairs[f] # {}


\* ------------------------------------------------------------ C24

\* C24: a generate_keypair that returns from the mock branch after an
\* earlier mock generate_keypair of the same class, level and node identity
\* returns the pair the earlier call returned and leaves the class's
\* registry (and the other class's) exactly as it found it.
C24_RepeatedGenerationIsIdempotent ==
    [][(last'.op = "generate_keypair" /\ last'.path = "mock") =>
          \A r \in returned :
              (/\ r.path = "mock"
               /\ instances[r.inst].family = instances[last'.inst].family
               /\ instances[r.inst].security_level = instances[last'.inst].security_level
               /\ r.node_id = last'.node_id) =>
                  /\ last'.ret_public_key = r.public_key
                  /\ last'.ret_private_key = r.private_key
                  /\ mock_keypairs' = mock_keypairs
      ]_vars

\* the latest call is a mock generate_keypair on instance 2 for a class,
\* level and node identity that instance 1 had generated for; the registry
\* holds that one key
C24_Witness ==
    /\ last.op = "generate_keypair" /\ last.path = "mock" /\ last.inst = 2
    /\ instances[1].family = instances[2].family
    /\ instances[1].security_level = instances[2].security_level
    /\ \E r \in returned : r.inst = 1 /\ r.path = "mock" /\ r.node_id = last.node_id
    /\ Cardinality(DOMAIN mock_keypairs[instances[2].family]) = 1


\* ------------------------------------------------------------ C25

\* the names of a list
Listed(names) == {names[k] : k \in 1..Len(names)}

\* what the backend may report for a level: any of the level's names, with
\* or without a name of another level among them
EnabledSets(family, security_level) ==
    LET names == variants(family)[security_level]
        other == CHOOSE m \in Mechanisms : m \notin Listed(names)
    IN  SUBSET (Listed(names) \cup {other})

\* variant is the first of names, in their order, that is in enabled_sigs,
\* and None when none of them is
FirstListed(variant, names, enabled_sigs) ==
    IF Listed(names) \cap enabled_sigs = {}
    THEN variant = None
    ELSE \E k \in 1..Len(names) :
             /\ variant = names[k]
             /\ names[k] \in enabled_sigs
             /\ \A j \in 1..(k - 1) : names[j] \notin enabled_sigs

\* C25: for every class, level and set of enabled mechanisms, the loop of
\* the constructor selects the first name of the level's list that is
\* enabled (ML-DSA before the legacy Dilithium name) and none exactly when no
\* listed name is enabled; and every instance constructed at a supported
\* level holds the name so selected from the mechanisms it was given.
C25_ResolutionPicksFirstEnabled ==
    /\ \A family \in Families :
           \A security_level \in DOMAIN variants(family) :
               \A enabled_sigs \in EnabledSets(family, security_level) :
                   LET names == variants(family)[security_level] IN
                   FirstListed(first_enabled(names, enabled_sigs), names, enabled_sigs)
    /\ \A i \in Slots :
           (instances[i].exists /\ Supported(i)) =>
               FirstListed(instances[i].variant,
                           variants(instances[i].family)[instances[i].security_level],
                           instances[i].enabled_sigs)

\* a Dilithium instance was constructed with both names of its level
\* enabled and holds the first of them, the ML-DSA name
C25_Witness ==
    \E i \in Slots :
        /\ instances[i].exists /\ instances[i].family = Dilithium /\ Supported(i)
        /\ Listed(dilithium_variants[instances[i].security_level])
               \subseteq instances[i].enabled_sigs
        /\ instances[i].variant = dilithium_variants[instances[i].security_level][1]

\* a Dilithium instance was constructed with the legacy name alone enabled
\* for its level and holds that name
C25_WitnessLegacy ==
    \E i \in Slots :
        /\ instances[i].exists /\ instances[i].family = Dilithium
        /\ "ML-DSA-65" \notin instances[i].enabled_sigs
        /\ instances[i].variant = "Dilithium3"


\* ------------------------------------------------------------ C26

\* the latest step constructed an instance whose enumeration of the
\* backend's mechanisms raised: the flag was up, no ValueError, and the
\* instance was left with no enabled mechanisms
ProbeFailed ==
    /\ last.op = "init" /\ last.flag0 /\ last.raised = None
    /\ instances[last.inst].enabled_sigs = {}

\* C26 as stated: a construction whose probe fails leaves the flag as it
\* was, that is, up.
C26_FailedProbeKeepsFlag == ProbeFailed => LIBOQS_AVAILABLE

\* C26, amended: the constructor probes only while the flag is up; a probe
\* that raises clears the flag then and there, a probe that succeeds leaves
\* it up, and with the flag down nothing is asked of the backend and the
\* flag stays down.  After a construction: a failed probe has left the flag
\* down, a construction that found the flag down has left it down and has
\* enumerated nothing, and a rejected level has left the flag up.
C26_FailedProbeClearsFlag ==
    /\ \A enum_raises \in BOOLEAN :
           /\ probe(TRUE, enum_raises).available = ~enum_raises
           /\ ~probe(FALSE, enum_raises).available
           /\ probe(FALSE, enum_raises).enabled_sigs = {}
    /\ ProbeFailed => ~LIBOQS_AVAILABLE
    /\ (last.op = "init" /\ ~last.flag0) =>
           /\ ~LIBOQS_AVAILABLE
           /\ last.raised = None
           /\ instances[last.inst].enabled_sigs = {}
    /\ (last.op = "init" /\ last.raised # None) => (last.flag0 /\ LIBOQS_AVAILABLE)

\* an instance with a signer exists, and the construction of a second
\* instance has just failed in its probe
C26_Witness ==
    /\ ProbeFailed
    /\ \E i \in Slots : i # last.inst /\ instances[i].exists /\ instances[i].signer # None


\* ------------------------------------------------------------ C27

\* the mock-mode instances of a class
MockInstances(family) == {i \in Slots : MockMode(i) /\ instances[i].family = family}

\* C27: in mock mode, what an instance of one class returns from sign, for
\* any private key a caller holds and any message, is rejected by verify on
\* every instance of the other class, for every public key a caller holds
\* (in that class's registry or not) and every message.
C27_MockSignaturesNotInterchangeable ==
    \A f \in Families, g \in Families :
        f # g =>
            \A i \in MockInstances(f), j \in MockInstances(g) :
                \A signer \in KnownPairs, holder \in KnownPairs :
                    \A m \in Messages, m2 \in Messages :
                        ~verify_value(j, holder.public_key, m2,
                                      sign_value(i, signer.private_key, m, FALSE), FALSE)

\* a mock instance of each class exists, each class's registry holds a key,
\* and the latest call is a verify that found its key registered and
\* rejected the signature
C27_Witness ==
    /\ MockInstances(Dilithium) # {} /\ MockInstances(SPHINCS) # {}
    /\ \A f \in Families : DOMAIN mock_keypairs[f] # {}
    /\ last.op = "verify" /\ last.found /\ ~last.ret_ok


\* ------------------------------------------------------------ C28

\* C28: in mock mode, two instances of one class give the same signature
\* for the same private key and message and the same verdict for the same
\* public key, message and signature, whatever their levels; and a pair
\* that one of them generated is found in the registry by the other, which
\* accepts what the first signs with it.
C28_MockResultsIgnoreLevel ==
    \A i \in Slots, j \in Slots :
        (MockMode(i) /\ MockMode(j) /\ instances[i].family = instances[j].family) =>
            /\ \A pair \in KnownPairs, m \in Messages :
                   /\ sign_value(i, pair.private_key, m, FALSE)
                          = sign_value(j, pair.private_key, m, FALSE)
                   /\ \A signature \in SignatureUniverse(i, pair) :
                          verify_value(i, pair.public_key, m, signature, FALSE)
                              = verify_value(j, pair.public_key, m, signature, FALSE)
            /\ \A r \in returned :
                   (r.inst = i /\ r.path = "mock") =>
                       /\ Truthy(dict_get(mock_keypairs[instances[j].family], r.public_key))
                       /\ \A m \in Messages :
                              verify_value(j, r.public_key, m,
                                           sign_value(i, r.private_key, m, FALSE), FALSE)

\* two mock instances of one class at different levels; only instance 1 has
\* generated keys; the latest call is a verify on instance 2 that found its
\* key in the registry and accepted the signature
C28_Witness ==
    /\ MockMode(1) /\ MockMode(2)
    /\ instances[1].family = instances[2].family
    /\ instances[1].security_level # instances[2].security_level
    /\ returned # {} /\ \A r \in returned : r.inst = 1 /\ r.path = "mock"
    /\ last.op = "verify" /\ last.inst = 2 /\ last.found /\ last.ret_ok

====
